---------------------------- MODULE Spec2Model ----------------------------
(***************************************************************************)
(* cs_ip_address: association and disassociation of a public IP address on *)
(* a CloudStack platform (lib/ansible/modules/cloud/cloudstack/            *)
(* cs_ip_address.py).                                                      *)
(*                                                                         *)
(* One invocation of main() is a linear script; its steps are cut at the   *)
(* remote calls.  The platform (its set of allocated public IP addresses   *)
(* and its asynchronous job) is part of the state.  Python's None is the   *)
(* empty sequence and a present value v is <<v>>.  The resolution of the   *)
(* account, domain, project, network, zone and VPC names to identifiers    *)
(* belongs to the shared client library and is not modelled: every address *)
(* of the platform lies in the scope the invocation names.                 *)
(***************************************************************************)
EXTENDS Integers, Sequences, FiniteSets

\* Number of public addresses the platform can hand out.
NumAddresses == 2

\* Number of consecutive invocations with the same arguments.
MaxRuns == 2

\* Number of direct calls of get_ip_address made by the harness of SpecGet.
MaxGets == 2

None == <<>>

Some(v) == <<v>>

Get(o) == o[1]

\* The addresses of the platform's pool.
Pool == 1..NumAddresses

\* Address strings an invocation may name: the pool's and one foreign to it.
Addresses == 1..(NumAddresses + 1)

\* The platform's UUID of the public IP resource with address a.
IdOf(a) == <<"uuid", a>>

\* A public IP address record as the platform lists it.
Record(a, nat) == [id |-> IdOf(a), ipaddress |-> a, isstaticnat |-> nat]

Records == {Record(a, nat) : a \in Pool, nat \in BOOLEAN}

\* The platform never lists one address twice.
RemoteStates == {R \in SUBSET Records : \A r, s \in R : r.ipaddress = s.ipaddress => r = s}

\* The invocation arguments as the playbook gives them (None: omitted).
Arguments ==
    [state : {None, Some("present"), Some("absent")},
     ip_address : {None} \cup {Some(a) : a \in Addresses},
     poll_async : {None, Some(TRUE), Some(FALSE)}]

VARIABLES
    args,             \* the arguments of the invocation, as given
    check_mode,       \* module.check_mode
    params,           \* module.params
    remote,           \* the platform: the allocated public IP address records
    job,              \* the platform's async job of this invocation, or None
    pc,               \* the position of main()
    self_ip_address,  \* self.ip_address, the cached record
    result,           \* self.result
    res,              \* the response of the mutating call
    ip_address,       \* the local ip_address of the running operation and of main()
    calls,            \* the remote calls issued by this invocation, in order
    exit,             \* what the module reported (exit_json / fail_json), or None
    run,              \* the number of the invocation
    remote0,          \* the platform as it was when the invocation started
    gets              \* the number of direct get_ip_address calls (SpecGet)

vars == <<args, check_mode, params, remote, job, pc, self_ip_address, result,
          res, ip_address, calls, exit, run, remote0, gets>>

----------------------------------------------------------------------------
(* Helpers of the module and of its collaborators.                         *)

\* argument_spec: the defaults of state and poll_async.
apply_defaults(a) ==
    [a EXCEPT !.state = IF a.state = None THEN Some("present") ELSE a.state,
              !.poll_async = IF a.poll_async = None THEN Some(TRUE) ELSE a.poll_async]

required_if_none == <<>>

\* required_if of the AnsibleModule construction.
required_if == <<[key |-> "state", val |-> "absent", requirements |-> {"ip_address"}]>>

\* AnsibleModule's enforcement of required_if: when params[key] is val, every
\* required parameter must have been given.
check_required_if(spec, p) ==
    \A i \in 1..Len(spec) :
        p[spec[i].key] = Some(spec[i].val) =>
            \A r \in spec[i].requirements : p[r] # None

is_absent_swapped(state) == state \in {"present"}

\* main(): `if state in ['absent']`.
is_absent(state) == state \in {"absent"}

\* All orders in which the platform may list the records of S.
RECURSIVE Orderings(_)
Orderings(S) ==
    IF S = {} THEN {<<>>}
    ELSE UNION {{<<r>> \o t : t \in Orderings(S \ {r})} : r \in S}

\* listPublicIpAddresses: the records with exactly the address asked for; an
\* argument that is None is not sent, so it does not filter.
listPublicIpAddresses(R, ipaddress) ==
    Orderings({r \in R : ipaddress = None \/ r.ipaddress = Get(ipaddress)})

\* _get_by_key: the record itself without a key, else the record's field.
get_by_key(k, rec) ==
    IF rec = None THEN None
    ELSE IF k = None THEN rec
    ELSE Some(Get(rec)[Get(k)])

\* get_ip_address: the cached record if there is one, else the first record
\* of the listing, which is then cached.
get_ip_address(k, cache, listing) ==
    IF cache # None
    THEN [ip_address |-> cache, value |-> get_by_key(k, cache), listed |-> FALSE]
    ELSE LET c == IF listing # <<>> THEN Some(listing[1]) ELSE cache
         IN  [ip_address |-> c, value |-> get_by_key(k, c), listed |-> TRUE]

\* One remote call: the operation, its argument and how it came back.
Call(op, arg, ret) == [op |-> op, arg |-> arg, ret |-> ret]

MutatingOps == {"associateIpAddress", "disassociateIpAddress"}

PollOp == "queryAsyncJobResult"

\* The calls of one operation name in a log.
CallsOf(log, op) == {i \in 1..Len(log) : log[i].op = op}

\* The calls in a log whose operation is one of ops.
CallsIn(log, ops) == {i \in 1..Len(log) : log[i].op \in ops}

\* get_result: the record normalised into the return fields.
get_result(r, rec) ==
    [failed |-> FALSE, msg |-> "", changed |-> r.changed,
     id |-> IF rec = None THEN None ELSE Some(Get(rec).id),
     ip_address |-> IF rec = None THEN None ELSE Some(Get(rec).ipaddress)]

\* fail_json: the structured failure; changed is not reported.
fail_json(msg) ==
    [failed |-> TRUE, msg |-> msg, changed |-> FALSE, id |-> None, ip_address |-> None]

StaticNatMsg == "IP address is allocated via static nat"

MissingMsg == "state is absent but all of the following are missing: ip_address"

RemoteMsg == "remote call failed"

\* poll_job: the job's result under the key, or the job response itself when
\* the result has no such key.
poll_job(j, response, k) ==
    IF k \in DOMAIN j.jobresult THEN Some(j.jobresult[k]) ELSE response

JobId(n) == <<"job", n>>

associate_changed_forgotten(r) == r

associate_changed_unless_check(r) == [r EXCEPT !.changed = ~check_mode]

\* associate_ip_address: self.result['changed'] = True, unconditionally.
associate_changed(r) == [r EXCEPT !.changed = TRUE]

\* associate_ip_address: `if not self.module.check_mode`.
associate_calls(check) == ~check

is_static_nat_unchecked(rec) == FALSE

\* disassociate_ip_address: `if ip_address['isstaticnat']`.
is_static_nat(rec) == rec.isstaticnat

disassociate_marks_always(rec) == TRUE

\* disassociate_ip_address: self.result['changed'] = True is reached only
\* with a record that is not statically NATted.
disassociate_marks_changed(rec) == rec # None /\ ~is_static_nat(Get(rec))

disassociate_calls_always(check) == TRUE

\* disassociate_ip_address: `if not self.module.check_mode`.
disassociate_calls(check) == ~check

\* disassociate_ip_address: disassociateIpAddress(id=ip_address['id']).
disassociate_id(rec) == rec.id

disassociate_poll_kept(local, polled) == polled

\* disassociate_ip_address: self.poll_job(res, 'ipaddress') is not assigned.
disassociate_poll_result(local, polled) == local

----------------------------------------------------------------------------
(* The invocation.                                                         *)

Init ==
    /\ args \in Arguments
    /\ check_mode \in BOOLEAN
    /\ params = args
    /\ remote \in RemoteStates
    /\ remote0 = remote
    /\ job = None
    /\ pc = "main"
    /\ self_ip_address = None
    /\ result = [changed |-> FALSE]
    /\ res = None
    /\ ip_address = None
    /\ calls = <<>>
    /\ exit = None
    /\ run = 1
    /\ gets = 0

\* The module stops with a failure.
Fail(msg) ==
    /\ exit' = Some(fail_json(msg))
    /\ pc' = "done"

\* main(): the construction of AnsibleModule (defaults, required_if) and of
\* AnsibleCloudStackIPAddress.
ModuleInit ==
    /\ pc = "main"
    /\ LET p == apply_defaults(args) IN
         /\ params' = p
         /\ IF check_required_if(required_if, p)
            THEN pc' = "dispatch" /\ exit' = exit
            ELSE Fail(MissingMsg)
    /\ result' = [changed |-> FALSE]
    /\ self_ip_address' = None
    /\ UNCHANGED <<args, check_mode, remote, job, res, ip_address, calls, run,
                   remote0, gets>>

\* main(): the dispatch on state.
Dispatch ==
    /\ pc = "dispatch"
    /\ pc' = IF is_absent(Get(params.state)) THEN "disassociate" ELSE "associate"
    /\ UNCHANGED <<args, check_mode, params, remote, job, self_ip_address, result,
                   res, ip_address, calls, exit, run, remote0, gets>>

\* associate_ip_address up to the poll: the platform refuses the call, or it
\* allocates a free address and answers with the job.
Associate ==
    /\ pc = "associate"
    /\ result' = associate_changed(result)
    /\ IF ~associate_calls(check_mode)
       THEN /\ ip_address' = None
            /\ pc' = "get_result"
            /\ UNCHANGED <<remote, job, res, calls, exit>>
       ELSE \/ /\ calls' = Append(calls, Call("associateIpAddress", None, "raised"))
               /\ Fail(RemoteMsg)
               /\ UNCHANGED <<remote, job, res, ip_address>>
            \/ \E a \in Pool :
               /\ \A r \in remote : r.ipaddress # a
               /\ remote' = remote \cup {Record(a, FALSE)}
               /\ job' = Some([jobid |-> JobId(run), status |-> "pending",
                               jobresult |-> [ipaddress |-> Record(a, FALSE)]])
               /\ res' = Some([jobid |-> JobId(run), id |-> IdOf(a)])
               /\ calls' = Append(calls, Call("associateIpAddress", None, "accepted"))
               /\ ip_address' = None
               /\ pc' = IF Get(params.poll_async) THEN "associate_poll" ELSE "get_result"
               /\ exit' = exit
    /\ UNCHANGED <<args, check_mode, params, self_ip_address, run, remote0, gets>>

\* The platform finishes the job.
JobFinish ==
    /\ job # None
    /\ Get(job).status = "pending"
    /\ \E s \in {"done", "error"} : job' = Some([Get(job) EXCEPT !.status = s])
    /\ UNCHANGED <<args, check_mode, params, remote, pc, self_ip_address, result,
                   res, ip_address, calls, exit, run, remote0, gets>>

\* associate_ip_address: ip_address = self.poll_job(res, 'ipaddress'), which
\* returns once the job is finished.
AssociatePoll ==
    /\ pc = "associate_poll"
    /\ Get(job).status # "pending"
    /\ IF Get(job).status = "done"
       THEN /\ calls' = Append(calls, Call(PollOp, Some(Get(res).jobid), "done"))
            /\ ip_address' = poll_job(Get(job), res, "ipaddress")
            /\ pc' = "get_result"
            /\ exit' = exit
       ELSE /\ calls' = Append(calls, Call(PollOp, Some(Get(res).jobid), "error"))
            /\ Fail(RemoteMsg)
            /\ ip_address' = ip_address
    /\ UNCHANGED <<args, check_mode, params, remote, job, self_ip_address, result,
                   res, run, remote0, gets>>

\* disassociate_ip_address up to the mutating call: the lookup and the three
\* ways on from it.
Disassociate ==
    /\ pc = "disassociate"
    /\ \/ /\ calls' = Append(calls, Call("listPublicIpAddresses", params.ip_address, "raised"))
          /\ Fail(RemoteMsg)
          /\ UNCHANGED <<self_ip_address, ip_address, result>>
       \/ \E listing \in listPublicIpAddresses(remote, params.ip_address) :
          LET g == get_ip_address(None, self_ip_address, listing) IN
          /\ self_ip_address' = g.ip_address
          /\ calls' = IF g.listed
                      THEN Append(calls, Call("listPublicIpAddresses", params.ip_address,
                                              IF listing = <<>> THEN "empty" ELSE "found"))
                      ELSE calls
          /\ result' = IF disassociate_marks_changed(g.value)
                       THEN [result EXCEPT !.changed = TRUE] ELSE result
          /\ IF g.value = None
             THEN /\ ip_address' = None
                  /\ pc' = "get_result"
                  /\ exit' = exit
             ELSE IF is_static_nat(Get(g.value))
             THEN /\ ip_address' = g.value
                  /\ Fail(StaticNatMsg)
             ELSE /\ ip_address' = g.value
                  /\ pc' = IF disassociate_calls(check_mode)
                           THEN "disassociate_call" ELSE "get_result"
                  /\ exit' = exit
    /\ UNCHANGED <<args, check_mode, params, remote, job, res, run, remote0, gets>>

\* disassociate_ip_address: the mutating call; the platform refuses it, or it
\* releases the address with the given id and answers with the job.
DisassociateCall ==
    /\ pc = "disassociate_call"
    /\ LET id == disassociate_id(Get(ip_address)) IN
       \/ /\ calls' = Append(calls, Call("disassociateIpAddress", Some(id), "raised"))
          /\ Fail(RemoteMsg)
          /\ UNCHANGED <<remote, job, res>>
       \/ /\ remote' = {r \in remote : r.id # id}
          /\ job' = Some([jobid |-> JobId(run), status |-> "pending",
                          jobresult |-> [success |-> TRUE]])
          /\ res' = Some([jobid |-> JobId(run)])
          /\ calls' = Append(calls, Call("disassociateIpAddress", Some(id), "accepted"))
          /\ pc' = IF Get(params.poll_async) THEN "disassociate_poll" ELSE "get_result"
          /\ exit' = exit
    /\ UNCHANGED <<args, check_mode, params, self_ip_address, result, ip_address,
                   run, remote0, gets>>

\* disassociate_ip_address: self.poll_job(res, 'ipaddress'), which returns
\* once the job is finished.
DisassociatePoll ==
    /\ pc = "disassociate_poll"
    /\ Get(job).status # "pending"
    /\ IF Get(job).status = "done"
       THEN /\ calls' = Append(calls, Call(PollOp, Some(Get(res).jobid), "done"))
            /\ ip_address' = disassociate_poll_result(ip_address,
                                                      poll_job(Get(job), res, "ipaddress"))
            /\ pc' = "get_result"
            /\ exit' = exit
       ELSE /\ calls' = Append(calls, Call(PollOp, Some(Get(res).jobid), "error"))
            /\ Fail(RemoteMsg)
            /\ ip_address' = ip_address
    /\ UNCHANGED <<args, check_mode, params, remote, job, self_ip_address, result,
                   res, run, remote0, gets>>

\* main(): result = get_result(ip_address); module.exit_json(**result).
GetResult ==
    /\ pc = "get_result"
    /\ exit' = Some(get_result(result, ip_address))
    /\ pc' = "done"
    /\ UNCHANGED <<args, check_mode, params, remote, job, self_ip_address, result,
                   res, ip_address, calls, run, remote0, gets>>

\* The module is run again with the same arguments.
NextInvocation ==
    /\ pc = "done"
    /\ run < MaxRuns
    /\ run' = run + 1
    /\ pc' = "main"
    /\ params' = args
    /\ remote0' = remote
    /\ job' = None
    /\ self_ip_address' = None
    /\ result' = [changed |-> FALSE]
    /\ res' = None
    /\ ip_address' = None
    /\ calls' = <<>>
    /\ exit' = None
    /\ UNCHANGED <<args, check_mode, remote, gets>>

Next ==
    \/ ModuleInit
    \/ Dispatch
    \/ Associate
    \/ JobFinish
    \/ AssociatePoll
    \/ Disassociate
    \/ DisassociateCall
    \/ DisassociatePoll
    \/ GetResult
    \/ NextInvocation

Spec == Init /\ [][Next]_vars

----------------------------------------------------------------------------
(* get_ip_address called on a constructed module object.                   *)

Keys == {None, Some("id"), Some("ipaddress")}

InitGet ==
    /\ args \in Arguments
    /\ check_required_if(required_if, apply_defaults(args))
    /\ check_mode \in BOOLEAN
    /\ params = apply_defaults(args)
    /\ remote \in RemoteStates
    /\ remote0 = remote
    /\ job = None
    /\ pc = "get_ip_address"
    /\ self_ip_address = None
    /\ result = [changed |-> FALSE]
    /\ res = None
    /\ ip_address = None
    /\ calls = <<>>
    /\ exit = None
    /\ run = 1
    /\ gets = 0

\* get_ip_address(key): the value it returns is left in ip_address.
GetIpAddress ==
    /\ pc = "get_ip_address"
    /\ gets < MaxGets
    /\ \E k \in Keys, listing \in listPublicIpAddresses(remote, params.ip_address) :
       LET g == get_ip_address(k, self_ip_address, listing) IN
       /\ self_ip_address' = g.ip_address
       /\ ip_address' = g.value
       /\ calls' = IF g.listed
                   THEN Append(calls, Call("listPublicIpAddresses", params.ip_address,
                                           IF listing = <<>> THEN "empty" ELSE "found"))
                   ELSE calls
    /\ gets' = gets + 1
    /\ UNCHANGED <<args, check_mode, params, remote, job, pc, result, res, exit,
                   run, remote0>>

NextGet == GetIpAddress

SpecGet == InitGet /\ [][NextGet]_vars

----------------------------------------------------------------------------
(* Properties.                                                             *)

\* The state the invocation runs with, the default applied.
State == Get(apply_defaults(args).state)

PollAsync == Get(apply_defaults(args).poll_async)

\* The lookup of this invocation came back without a record.
LookupEmpty == \E i \in CallsOf(calls, "listPublicIpAddresses") : calls[i].ret = "empty"

\* The lookup of this invocation found a statically NATted record.
LookupStaticNat == self_ip_address # None /\ Get(self_ip_address).isstaticnat

\* The lookup of this invocation found a record that is not statically NATted.
LookupPlain == self_ip_address # None /\ ~Get(self_ip_address).isstaticnat

\* C1: an invocation with state=absent whose lookup returns no record goes
\* straight to its successful end: changed stays false, it reports success
\* with changed=false, and it issues neither associateIpAddress nor
\* disassociateIpAddress, in check mode or not, polling or not.
C1_AbsentNotFoundIsNoop ==
    (State = "absent" /\ LookupEmpty) =>
        /\ pc \in {"get_result", "done"}
        /\ ~result.changed
        /\ CallsIn(calls, MutatingOps) = {}
        /\ pc = "done" => exit = Some([failed |-> FALSE, msg |-> "", changed |-> FALSE,
                                       id |-> None, ip_address |-> None])

C1_Witness ==
    /\ State = "absent" /\ LookupEmpty /\ pc = "done" /\ ~check_mode
    /\ remote # {}
    /\ exit # None /\ ~Get(exit).failed

\* C2: an invocation with state=absent whose looked-up record is statically
\* NATted ends failed with the message "IP address is allocated via static
\* nat"; it never calls disassociateIpAddress and never sets changed, in
\* check mode and in normal mode.
C2_StaticNatFails ==
    (State = "absent" /\ LookupStaticNat) =>
        /\ pc = "done"
        /\ exit = Some(fail_json("IP address is allocated via static nat"))
        /\ ~result.changed
        /\ CallsOf(calls, "disassociateIpAddress") = {}
        /\ Get(self_ip_address) \in remote

C2_Witness ==
    /\ State = "absent" /\ LookupStaticNat /\ ~check_mode /\ pc = "done"
    /\ Get(exit).failed

\* C3: in check mode no associateIpAddress, no disassociateIpAddress and no
\* job poll is issued, whatever the state and the platform; the platform is
\* left as it was and no job exists.
C3_CheckModeIssuesNoMutation ==
    check_mode =>
        /\ CallsIn(calls, MutatingOps \cup {PollOp}) = {}
        /\ remote = remote0
        /\ job = None

C3_Witness ==
    /\ check_mode /\ pc = "done" /\ State = "absent" /\ LookupPlain
    /\ Get(exit).changed

\* C4: every invocation with state=present (given or defaulted) that is not
\* in check mode and whose remote calls succeed reports changed=true and has
\* issued exactly one associateIpAddress call; this holds for each of the
\* consecutive invocations with the same arguments.
C4_PresentAlwaysChanged ==
    (pc = "done" /\ State = "present" /\ ~check_mode /\ ~Get(exit).failed) =>
        /\ Get(exit).changed
        /\ Cardinality(CallsOf(calls, "associateIpAddress")) = 1
        /\ Cardinality(remote) = Cardinality(remote0) + 1

C4_Witness ==
    /\ pc = "done" /\ args.state = None /\ ~check_mode /\ run > 1
    /\ ~Get(exit).failed /\ Get(exit).changed
    /\ Cardinality(remote) = 2

\* C5: an invocation with state=absent and no ip_address is rejected by the
\* parameter validation: it is never dispatched, issues no remote call and
\* ends failed.
C5_AbsentWithoutAddressRejected ==
    (args.state = Some("absent") /\ args.ip_address = None) =>
        /\ pc \in {"main", "done"}
        /\ calls = <<>>
        /\ pc = "done" => (Get(exit).failed /\ Get(exit).msg = MissingMsg)

C5_Witness ==
    /\ args.state = Some("absent") /\ args.ip_address = None /\ pc = "done"
    /\ remote # {}

\* C6: one invocation issues at most one mutating call, and only the one of
\* its state: state=present never calls disassociateIpAddress, state=absent
\* never calls associateIpAddress.
C6_AtMostOneMutatingCall ==
    /\ Cardinality(CallsIn(calls, MutatingOps)) <= 1
    /\ State = "present" => CallsOf(calls, "disassociateIpAddress") = {}
    /\ State = "absent" => CallsOf(calls, "associateIpAddress") = {}

C6_Witness ==
    /\ pc = "done" /\ State = "absent"
    /\ Cardinality(CallsOf(calls, "disassociateIpAddress")) = 1
    /\ ~Get(exit).failed

\* C7: associate_ip_address outside check mode returns the record of the
\* finished job when poll_async is true, and the immediate response of the
\* associateIpAddress call when poll_async is false.
C7_AssociateReturnsResponse ==
    (pc = "get_result" /\ State = "present" /\ ~check_mode) =>
        IF PollAsync
        THEN ip_address = Some(Get(job).jobresult.ipaddress) /\ Get(job).status = "done"
        ELSE ip_address = res

\* C8: get_ip_address returns none when the invocation names no ip_address,
\* whatever the platform lists.
C8_NoAddressReturnsNone ==
    (gets > 0 /\ params.ip_address = None) => ip_address = None

\* C9: when disassociate_ip_address finds a record that is not statically
\* NATted it returns exactly the record its lookup obtained, in check mode
\* and in normal mode and with or without polling; the lookup precedes the
\* mutating call, disassociateIpAddress is issued with that record's id, and
\* the poll leaves the returned record alone.
C9_DisassociateReturnsLookedUpRecord ==
    (State = "absent" /\ LookupPlain) =>
        /\ Get(self_ip_address) \in remote0
        /\ pc \in {"disassociate_call", "disassociate_poll", "get_result"}
              => ip_address = self_ip_address
        /\ (pc = "done" /\ ~Get(exit).failed) =>
              /\ ip_address = self_ip_address
              /\ Get(exit).id = Some(Get(self_ip_address).id)
              /\ Get(exit).ip_address = args.ip_address
        /\ \A i \in CallsOf(calls, "disassociateIpAddress") :
              /\ calls[i].arg = Some(Get(self_ip_address).id)
              /\ \E j \in CallsOf(calls, "listPublicIpAddresses") : j < i

C9_Witness ==
    /\ State = "absent" /\ LookupPlain /\ ~check_mode /\ PollAsync /\ pc = "done"
    /\ CallsOf(calls, PollOp) # {}
    /\ ~Get(exit).failed
    /\ Get(self_ip_address) \notin remote

\* What an invocation reports, from its arguments and the platform it
\* started on alone; check mode is not read.
Expected ==
    LET p == apply_defaults(args)
        found == {r \in remote0 : Some(r.ipaddress) = p.ip_address}
    IN  IF ~check_required_if(required_if, p)
        THEN [failed |-> TRUE, msg |-> MissingMsg, changed |-> FALSE]
        ELSE IF p.state = Some("present")
        THEN [failed |-> FALSE, msg |-> "", changed |-> TRUE]
        ELSE IF found = {}
        THEN [failed |-> FALSE, msg |-> "", changed |-> FALSE]
        ELSE IF \E r \in found : r.isstaticnat
        THEN [failed |-> TRUE, msg |-> StaticNatMsg, changed |-> FALSE]
        ELSE [failed |-> FALSE, msg |-> "", changed |-> TRUE]

\* C10: with the same arguments on the same platform, an invocation in check
\* mode and one in normal mode whose remote calls succeed end alike: the same
\* kind of outcome (success, or the static-NAT failure) and the same changed;
\* what they report is decided by the arguments and the platform alone.
C10_CheckModeReportsAlike ==
    (pc = "done" /\ Get(exit).msg # RemoteMsg) =>
        /\ Get(exit).failed = Expected.failed
        /\ Get(exit).msg = Expected.msg
        /\ Get(exit).changed = Expected.changed

C10_Witness ==
    /\ pc = "done" /\ check_mode /\ State = "present"
    /\ Get(exit).changed /\ ~Get(exit).failed
    /\ remote = remote0

=============================================================================
